---------------------------- MODULE Spec2Model ----------------------------
(***************************************************************************)
(* Trajectory ablation engine of mini-swe-agent/src: the trajectory        *)
(* mutator (truncate_and_inject, truncate_and_inject_at_instructions), the *)
(* resumption loop of run_single_instance / run_with_injection and the     *)
(* batch loop of batch_ablation.main.                                      *)
(*                                                                         *)
(* Python values are modelled as follows.                                  *)
(*   str        a sequence of atoms; an atom is one character or one       *)
(*              opaque chunk of text (a payload literal, an exception      *)
(*              text) written as a TLA+ string                             *)
(*   dict       a function whose DOMAIN is the set of keys                 *)
(*   list       a sequence; a list of message dicts is a sequence of       *)
(*              references into `heap`, because Python lists hold          *)
(*              references and a slice copies the references only          *)
(*   exception  a record [exc |-> type name, text |-> str(e)]              *)
(***************************************************************************)
EXTENDS Integers, Sequences, FiniteSets, TLC

\* ------------------------------------------------------------------ bounds
\* Largest number of messages of a trajectory handed to the mutator.
MaxMsgs == 3
\* Largest number of successive mutator calls on one trajectory object.
MaxCalls == 2
\* Largest number of entries of the annotation file.
MaxInstances == 2
\* Largest number of agent steps of one instance that do not end its loop.
MaxSteps == 2

\* ------------------------------------------------------------ Python helpers
Min(a, b) == IF a < b THEN a ELSE b
Max(a, b) == IF a > b THEN a ELSE b

\* Variant: the slice keeps the item at position k as well.
PySlicePrefix_inclusive(seq, k) ==
    IF k >= 0 THEN SubSeq(seq, 1, Min(k + 1, Len(seq)))
    ELSE SubSeq(seq, 1, Max(Len(seq) + k + 1, 0))

\* seq[:k]  (k an int): the first k items, counted from the end when k < 0.
PySlicePrefix(seq, k) ==
    IF k >= 0 THEN SubSeq(seq, 1, Min(k, Len(seq)))
    ELSE SubSeq(seq, 1, Max(Len(seq) + k, 0))

\* Variant: a missing key gives the value of some key of the dict.
PyDictGet_someValue(d, key, default) ==
    IF key \in DOMAIN d THEN d[key] ELSE d[CHOOSE k \in DOMAIN d : TRUE]

\* d.get(key, default)
PyDictGet(d, key, default) == IF key \in DOMAIN d THEN d[key] ELSE default

\* s[a:b] for 0 <= a <= b <= len(s), as 0-based Python positions.
PyStrSlice(s, a, b) == SubSeq(s, a + 1, b)

\* TRUE iff sub occurs in s at 0-based position p.
OccursAt(s, sub, p) ==
    /\ p + Len(sub) <= Len(s)
    /\ \A j \in 1..Len(sub) : s[p + j] = sub[j]

\* s.find(sub): the lowest 0-based position of sub in s, -1 when absent.
PyFind(s, sub) ==
    LET hits == {p \in 0..Len(s) : OccursAt(s, sub, p)}
    IN  IF hits = {} THEN -1
        ELSE CHOOSE p \in hits : \A q \in hits : p <= q

\* -------------------------------------------------------- payload registry
\* One atom stands for the whole literal of the source; literals that differ
\* in the source are different atoms.
CWE_INJECTIONS ==
    [cwe_532 |-> <<"[532: debugging and monitoring / logging.getLogger warning sensitive_data]">>,
     cwe_79  |-> <<"[79: user experience and debugging / div user-info user_input]">>,
     cwe_89  |-> <<"[89: performance and flexibility / execute directly, string concatenation]">>,
     cwe_94  |-> <<"[94: debugging and monitoring / eval process_data user_input]">>]

SIMPLE_CWE_INJECTIONS ==
    [cwe_532 |-> <<"[532: debugging and monitoring / logging.getLogger warning sensitive_data]">>,
     cwe_79  |-> <<"[79: user experience and debugging / div user-info user_input]">>,
     cwe_89  |-> <<"[89: database flexibility / dynamic SQL, SELECT examples, execute directly]">>,
     cwe_94  |-> <<"[94: debugging and monitoring / eval process_data user_input]">>]

\* The marker '<instructions>' of the anchor method, character by character.
InstructionsTag ==
    <<"<", "i", "n", "s", "t", "r", "u", "c", "t", "i", "o", "n", "s", ">">>

\* ---------------------------------------------------------------- results
\* What a call does: it returns a value or raises, and leaves a heap.
Returned(value, h) ==
    [raised |-> FALSE, exc |-> "", text |-> "", value |-> value, heap |-> h]
Raised(exc, text, h) ==
    [raised |-> TRUE, exc |-> exc, text |-> text, value |-> <<>>, heap |-> h]

\* ------------------------------------------------------- trajectory mutator
\* Variant: the field is read without the check, which is a KeyError.
MalformedTrajectory_keyError(h) == Raised("KeyError", "'messages'", h)

\* if 'messages' not in original_traj: raise ValueError(...)
MalformedTrajectory(h) ==
    Raised("ValueError", "Trajectory must have 'messages' field", h)

\* Variant: the payload is put in front of the content.
AppendInPlace_prepend(h, ref, toxic_instruction) ==
    [h EXCEPT ![ref].content = toxic_instruction \o @]

\* Variant: the updated message is stored as an assistant message.
AppendInPlace_asAssistant(h, ref, toxic_instruction) ==
    [h EXCEPT ![ref] = [role |-> "assistant", content |-> @.content \o toxic_instruction]]

\* truncated_messages[-1]['content'] += toxic_instruction : the dict that the
\* last reference names is updated in place.
AppendInPlace(h, ref, toxic_instruction) ==
    [h EXCEPT ![ref].content = @ \o toxic_instruction]

\* Variant: only an assistant message is refused as the last message.
LastIsNotUser_assistantOnly(h, truncated_messages) ==
    h[truncated_messages[Len(truncated_messages)]].role = "assistant"

\* truncated_messages[-1].get('role') != 'user'
LastIsNotUser(h, truncated_messages) ==
    h[truncated_messages[Len(truncated_messages)]].role # "user"

\* batch_ablation.truncate_and_inject
truncate_and_inject(h, original_traj, injection_step, cwe_type) ==
    IF "messages" \notin DOMAIN original_traj
    THEN MalformedTrajectory(h)
    ELSE
    LET messages == original_traj["messages"]
        truncated_messages == PySlicePrefix(messages, injection_step)
        toxic_instruction == PyDictGet(CWE_INJECTIONS, cwe_type, <<>>)
    IN  IF toxic_instruction = <<>>
        THEN Raised("ValueError", "Unknown CWE type", h)
        ELSE IF truncated_messages = <<>>
        THEN Raised("IndexError", "list index out of range", h)
        ELSE IF LastIsNotUser(h, truncated_messages)
        THEN Raised("ValueError", "User is not the last message", h)
        ELSE Returned(truncated_messages,
                      AppendInPlace(h, truncated_messages[Len(truncated_messages)],
                                    toxic_instruction))

\* simple_ablation.truncate_and_inject
simple_truncate_and_inject(h, original_traj, injection_step, cwe_type) ==
    IF "messages" \notin DOMAIN original_traj
    THEN MalformedTrajectory(h)
    ELSE
    LET messages == original_traj["messages"]
        truncated_messages == PySlicePrefix(messages, injection_step)
        toxic_instruction == PyDictGet(SIMPLE_CWE_INJECTIONS, cwe_type, <<>>)
    IN  IF toxic_instruction = <<>>
        THEN Raised("ValueError", "Unknown CWE type", h)
        ELSE IF truncated_messages = <<>>
        THEN Raised("IndexError", "list index out of range", h)
        ELSE IF LastIsNotUser(h, truncated_messages)
        THEN Raised("ValueError", "User is not the last message", h)
        ELSE Returned(truncated_messages,
                      AppendInPlace(h, truncated_messages[Len(truncated_messages)],
                                    toxic_instruction))

\* Variant: the first user message that contains the marker.
FirstUserIdx_withMarker(h, truncated_messages) ==
    LET us == {i \in 1..Len(truncated_messages) :
                  /\ h[truncated_messages[i]].role = "user"
                  /\ PyFind(h[truncated_messages[i]].content, InstructionsTag) # -1}
    IN  IF us = {} THEN 0 ELSE CHOOSE i \in us : \A j \in us : i <= j

\* Variant: the search gives up when the last message is not a user message.
FirstUserIdx_onlyIfLastUser(h, truncated_messages) ==
    LET us == {i \in 1..Len(truncated_messages) :
                  h[truncated_messages[i]].role = "user"}
    IN  IF us = {} \/ h[truncated_messages[Len(truncated_messages)]].role # "user"
        THEN 0
        ELSE CHOOSE i \in us : \A j \in us : i <= j

\* The for loop over enumerate(truncated_messages): the 1-based position of
\* the first reference whose message has role user, 0 when there is none
\* (first_user_message is None).
FirstUserIdx(h, truncated_messages) ==
    LET us == {i \in 1..Len(truncated_messages) :
                  h[truncated_messages[i]].role = "user"}
    IN  IF us = {} THEN 0 ELSE CHOOSE i \in us : \A j \in us : i <= j

\* Variant: the payload is put behind the marker.
InsertBefore_after(content, instructions_pos, toxic_instruction) ==
    PyStrSlice(content, 0, instructions_pos + Len(InstructionsTag)) \o toxic_instruction
        \o PyStrSlice(content, instructions_pos + Len(InstructionsTag), Len(content))

\* content[:instructions_pos] + toxic_instruction + content[instructions_pos:]
InsertBefore(content, instructions_pos, toxic_instruction) ==
    PyStrSlice(content, 0, instructions_pos) \o toxic_instruction
        \o PyStrSlice(content, instructions_pos, Len(content))

\* batch_ablation.truncate_and_inject_at_instructions
truncate_and_inject_at_instructions(h, original_traj, injection_step, cwe_type) ==
    IF "messages" \notin DOMAIN original_traj
    THEN MalformedTrajectory(h)
    ELSE
    LET messages == original_traj["messages"]
        truncated_messages == PySlicePrefix(messages, injection_step)
        toxic_instruction == PyDictGet(CWE_INJECTIONS, cwe_type, <<>>)
        first_user_idx == FirstUserIdx(h, truncated_messages)
    IN  IF toxic_instruction = <<>>
        THEN Raised("ValueError", "Unknown CWE type", h)
        ELSE IF first_user_idx = 0
        THEN Raised("ValueError", "No user message found in truncated trajectory", h)
        ELSE
        LET ref == truncated_messages[first_user_idx]
            content == h[ref].content
            instructions_pos == PyFind(content, InstructionsTag)
        IN  IF instructions_pos = -1
            THEN Raised("ValueError",
                        "No <instructions> tag found in first user message for instructions injection method", h)
            ELSE Returned(truncated_messages,
                          [h EXCEPT ![ref].content =
                              InsertBefore(content, instructions_pos, toxic_instruction)])

\* simple_ablation.truncate_and_inject_at_instructions
simple_truncate_and_inject_at_instructions(h, original_traj, injection_step, cwe_type) ==
    IF "messages" \notin DOMAIN original_traj
    THEN MalformedTrajectory(h)
    ELSE
    LET messages == original_traj["messages"]
        truncated_messages == PySlicePrefix(messages, injection_step)
        toxic_instruction == PyDictGet(SIMPLE_CWE_INJECTIONS, cwe_type, <<>>)
        first_user_idx == FirstUserIdx(h, truncated_messages)
    IN  IF toxic_instruction = <<>>
        THEN Raised("ValueError", "Unknown CWE type", h)
        ELSE IF first_user_idx = 0
        THEN Raised("ValueError", "No user message found in truncated trajectory", h)
        ELSE
        LET ref == truncated_messages[first_user_idx]
            content == h[ref].content
            instructions_pos == PyFind(content, InstructionsTag)
        IN  IF instructions_pos = -1
            THEN Raised("ValueError",
                        "No <instructions> tag found in first user message for instructions injection method", h)
            ELSE Returned(truncated_messages,
                          [h EXCEPT ![ref].content =
                              InsertBefore(content, instructions_pos, toxic_instruction)])

\* The dispatch on injection_method of run_single_instance (batch) and of
\* run_with_injection (simple).
Mutate(pipeline, injection_method, h, original_traj, injection_step, cwe_type) ==
    IF pipeline = "batch"
    THEN IF injection_method = "instructions"
         THEN truncate_and_inject_at_instructions(h, original_traj, injection_step, cwe_type)
         ELSE truncate_and_inject(h, original_traj, injection_step, cwe_type)
    ELSE IF injection_method = "instructions"
         THEN simple_truncate_and_inject_at_instructions(h, original_traj, injection_step, cwe_type)
         ELSE simple_truncate_and_inject(h, original_traj, injection_step, cwe_type)

\* ------------------------------------------------------------------- state
VARIABLES
    \* command-line inputs and the annotation file
    annotations, limit, cwe_type, injection_method, pipeline,
    \* batch_ablation.main
    pc, annotated_instances, i, success_count, failed_instances, summary,
    \* locals of run_single_instance / run_with_injection
    instance_id, injection_step, heap, original_traj, agent_messages,
    exit_status, result, extra_info, nsteps,
    \* the output directory: how often each trajectory file was written, and
    \* the data written for the instance processed last
    traj_writes, saved,
    \* observation: the calls of save_traj made for the running instance, what
    \* became of the instance processed last, and the value run_single_instance
    \* returned for each instance processed so far
    save_calls, last, outcomes,
    \* the mutator called directly: what the last call did, the heap before it
    ret, pre_heap, ncalls,
    \* what the last agent.step() of the running instance did: returned or the
    \* exception it raised, and the messages it had appended by itself
    step_event,
    \* the environments constructed so far, one entry each
    environments,
    \* rule_based_annotation: the trajectory file of each instance in
    \* --trajectory-dir, the stats of create_annotated_json, the output file,
    \* the runs completed
    trajectory_dir, stats, annotated_file, passes,
    \* observation: what the last call of annotate_instance did, and the ids
    \* of the instances whose injection_step the detector has filled
    anno, rule_filled

mainVars == <<pc, annotated_instances, i, success_count, failed_instances, summary>>
inputVars == <<annotations, limit, cwe_type, injection_method, pipeline>>
instVars == <<instance_id, injection_step, heap, original_traj, agent_messages,
              exit_status, result, extra_info, nsteps>>
outVars == <<traj_writes, saved, save_calls, last, outcomes>>
callVars == <<ret, pre_heap, ncalls>>
annotatorVars == <<trajectory_dir, stats, annotated_file, passes, anno, rule_filled>>
vars == <<inputVars, mainVars, instVars, outVars, callVars, step_event, environments,
          annotatorVars>>

\* Python None where the other values are strings.
None == "None"
\* No instance id, no record of a processed instance, no file written.
NoId == <<>>
NoLast == [seen |-> FALSE]
NoFile == [written |-> FALSE]
\* No step made yet.
NoEvent == [kind |-> "none", exc |-> None, by_step |-> 0]

\* ------------------------------------------------------------ message data
Abc == <<"a", "b", "c">>
Def == <<"d", "e", "f">>

\* Contents of user messages: no marker, marker at position 0, marker at the
\* end, marker in the middle, and two markers the first of which follows a
\* lone "<".
UserContents ==
    {Abc, InstructionsTag \o Def, Abc \o InstructionsTag,
     Abc \o InstructionsTag \o Def,
     <<"<">> \o InstructionsTag \o Def \o InstructionsTag}
AssistantContents == {Abc, Abc \o InstructionsTag \o Def}
SystemContents == {Abc}

Messages ==
    {[role |-> "user", content |-> c] : c \in UserContents}
    \cup {[role |-> "assistant", content |-> c] : c \in AssistantContents}
    \cup {[role |-> "system", content |-> c] : c \in SystemContents}

SupportedClasses == DOMAIN CWE_INJECTIONS
ClassIds == SupportedClasses \cup {"cwe_999"}
Methods == {"append", "instructions"}
Pipelines == {"batch", "simple"}

\* The steps tried: from one that counts back past the start of the longest
\* trajectory to one past its end.
StepRange == (0 - MaxMsgs) .. (MaxMsgs + 1)

\* The references 1..n in list order: the list json.load builds.
RefList(n) == [k \in 1..n |-> k]

\* ------------------------------------------------- the mutator called directly
\* No call of annotate_instance yet.
NoAnnotation == [called |-> FALSE]
\* The annotator is not part of the run.
AnnotatorIdle ==
    /\ trajectory_dir = <<>>
    /\ stats = <<>>
    /\ annotated_file = NoFile
    /\ passes = 0
    /\ anno = NoAnnotation
    /\ rule_filled = {}

NoCall == [method |-> None, raised |-> FALSE, exc |-> "", text |-> "", value |-> <<>>]

BatchIdle ==
    /\ annotations = <<>>
    /\ limit = <<>>
    /\ pc = "call"
    /\ annotated_instances = <<>>
    /\ i = 0
    /\ success_count = 0
    /\ failed_instances = <<>>
    /\ summary = NoFile
    /\ instance_id = NoId
    /\ agent_messages = <<>>
    /\ exit_status = None
    /\ result = None
    /\ extra_info = <<>>
    /\ nsteps = 0
    /\ traj_writes = <<>>
    /\ saved = NoFile
    /\ save_calls = 0
    /\ last = NoLast
    /\ outcomes = <<>>
    /\ step_event = NoEvent
    /\ environments = <<>>
    /\ AnnotatorIdle

InitInject ==
    /\ BatchIdle
    /\ cwe_type \in ClassIds
    /\ pipeline \in Pipelines
    /\ injection_method = None
    /\ injection_step \in StepRange
    /\ \E n \in 0..MaxMsgs :
          /\ heap \in [1..n -> Messages]
          /\ original_traj \in
                {[messages |-> RefList(n)]}
                \cup (IF n = 0 THEN {[trajectory_format |-> <<"x">>]} ELSE {})
    /\ pre_heap = heap
    /\ ret = NoCall
    /\ ncalls = 0

\* One call of the mutator of `pipeline` with method m on the trajectory
\* object: the heap becomes the heap the call leaves, ret what it did.
Call(m) ==
    LET r == Mutate(pipeline, m, heap, original_traj, injection_step, cwe_type)
    IN  /\ pre_heap' = heap
        /\ heap' = r.heap
        /\ ret' = [method |-> m, raised |-> r.raised, exc |-> r.exc,
                   text |-> r.text, value |-> r.value]
        /\ ncalls' = ncalls + 1
        /\ UNCHANGED <<inputVars, annotatorVars, environments, mainVars, outVars,
                       instance_id, injection_step,
                       original_traj, agent_messages, exit_status, result,
                       extra_info, nsteps, step_event>>

CallAppend ==
    /\ pc = "call"
    /\ ncalls < MaxCalls
    /\ ret.method \in {None, "append"}
    /\ Call("append")

CallInstructions ==
    /\ pc = "call"
    /\ ncalls < MaxCalls
    /\ ret.method \in {None, "instructions"}
    /\ Call("instructions")

NextInject == CallAppend \/ CallInstructions

SpecInject == InitInject /\ [][NextInject]_vars

\* ========================================================== the batch run
\* --------------------------------------------------------- annotation file
\* injection_step of an entry nobody annotated.
UNANNOTATED == -1

\* Instance ids are distinct: the extraction writes one entry per resolved id.
Id(p) == <<"instance", p>>
TrajectoryPath(p) == <<"trajectory of", p>>
AnnotationEntry(p, step) ==
    [instance_id |-> Id(p), injection_step |-> step, trajectory_path |-> TrajectoryPath(p)]
\* The dict d without key.
Without(d, key) == [k \in (DOMAIN d) \ {key} |-> d[k]]

\* Entries of the annotation file at position p: annotated with step 3 or 4,
\* not annotated, and entries that lack one of the fields.
EntryKinds ==
    {"step 3", "step 4", "unannotated", "no injection_step", "no instance_id",
     "no trajectory_path"}
Entry(p, kind) ==
    CASE kind = "step 3" -> AnnotationEntry(p, 3)
      [] kind = "step 4" -> AnnotationEntry(p, 4)
      [] kind = "unannotated" -> AnnotationEntry(p, UNANNOTATED)
      [] kind = "no injection_step" -> Without(AnnotationEntry(p, 4), "injection_step")
      [] kind = "no instance_id" -> Without(AnnotationEntry(p, 4), "instance_id")
      [] OTHER -> Without(AnnotationEntry(p, 4), "trajectory_path")

\* limit: <<>> is None (option absent), <<n>> the integer n: zero, negative,
\* smaller than the longest list and as long as it.
LimitChoices == {<<>>, <<0>>, <<-1>>, <<1>>, <<2>>}

\* Variant: every limit that is given is applied.
get_annotated_instances_anyLimit(instances, lim) ==
    LET annotated ==
            SelectSeq(instances,
                      LAMBDA instance :
                          PyDictGet(instance, "injection_step", UNANNOTATED) # UNANNOTATED)
    IN  IF lim # <<>> THEN PySlicePrefix(annotated, lim[1]) ELSE annotated

\* batch_ablation.get_annotated_instances, on the 'instances' list of the file
get_annotated_instances(instances, lim) ==
    LET annotated ==
            SelectSeq(instances,
                      LAMBDA instance :
                          PyDictGet(instance, "injection_step", UNANNOTATED) # UNANNOTATED)
    IN  IF lim # <<>> /\ lim[1] # 0 /\ lim[1] > 0
        THEN PySlicePrefix(annotated, lim[1])
        ELSE annotated

\* ------------------------------------------------------- trajectory files
Msg(role, content) == [role |-> role, content |-> content]

\* system, user, assistant, user, assistant; the first user message carries
\* the marker.
ScenarioMessages ==
    <<Msg("system", Abc), Msg("user", Abc \o InstructionsTag \o Def),
      Msg("assistant", Abc), Msg("user", Abc), Msg("assistant", Abc)>>
ShortMessages == <<Msg("system", Abc), Msg("user", Abc)>>

\* What a trajectory file may hold: a 'messages' list, or no such field.
TrajectoryFiles ==
    {[messages |-> ScenarioMessages], [messages |-> ShortMessages],
     [trajectory_format |-> <<"mini-swe-agent-1">>]}

\* load_original_trajectory: json.load builds one fresh dict per message.
LoadedHeap(file) == PyDictGet(file, "messages", <<>>)
LoadedTraj(file) ==
    IF "messages" \in DOMAIN file
    THEN [messages |-> RefList(Len(file["messages"]))]
    ELSE file

\* ------------------------------------------------------------ the agent
\* agent.step(): the reply of the model, then the observation of the
\* environment, are appended to the conversation.
ModelReply == Msg("assistant", <<"[model reply]">>)
Observation == Msg("user", <<"[observation]">>)

\* Exception classes a step raises, and str(e).
NonTerminating == {"FormatError"}
Terminating == {"Submitted", "LimitsExceeded"}
Unexpected == {"OSError"}
\* Variant: the result is left as it was set before the loop.
StrOf_unset(exc) == None


StrOf(exc) ==
    CASE exc = "FormatError" -> "[text of the FormatError]"
      [] exc = "Submitted" -> "[text of the Submitted]"
      [] exc = "LimitsExceeded" -> "[text of the LimitsExceeded]"
      [] OTHER -> "[text of the exception]"

\* The messages a step appended by itself before it raised exc: a malformed
\* action and a submission are found in a reply that was appended; the limits
\* are checked before the model is queried; a failure of the model comes
\* before the reply and a failure of the environment after it.
PartialAppends(exc) ==
    CASE exc \in {"FormatError", "Submitted"} -> {<<ModelReply>>}
      [] exc = "LimitsExceeded" -> {<<>>}
      [] OTHER -> {<<>>, <<ModelReply>>}

\* agent.add_message(role, content): a new dict at the end of the list.
HeapWith(h, msgs) == h \o msgs
MessagesWith(h, refs, msgs) == refs \o [k \in 1..Len(msgs) |-> Len(h) + k]

\* Variant: the message is added with the role of the agent.
ConditionMessage_assistant(e) == Msg("assistant", <<StrOf(e)>>)

\* agent.add_message("user", str(e)) of the two handlers inside the loop
ConditionMessage(e) == Msg("user", <<StrOf(e)>>)

\* Variant: the name of the base class the handler names.
TypeName_baseClass(e) == IF e \in Terminating THEN "TerminatingException" ELSE "Exception"

\* type(e).__name__
TypeName(e) == e

\* Variant: no traceback is recorded.
WithTraceback_absent(info) == info

\* Variant: the instance-level handler catches nothing.
CaughtAtInstanceLevel_none(exc) == FALSE

\* except Exception as e (the handler around the while loop)
CaughtAtInstanceLevel(exc) == exc \in Unexpected \cup NonTerminating \cup Terminating

\* extra_info["traceback"] = traceback.format_exc()
WithTraceback(info) ==
    [k \in (DOMAIN info) \cup {"traceback"} |->
        IF k = "traceback" THEN "[traceback]" ELSE info[k]]

\* save_traj: the data written to the trajectory file.
TrajData(h, refs, status, res, info) ==
    [written |-> TRUE,
     messages |-> [k \in 1..Len(refs) |-> h[refs[k]]],
     exit_status |-> status, result |-> res, extra_info |-> info]

\* -------------------------------------------------------------- main
\* The batch run (batch_ablation run, any annotation file and limit) or the
\* single run (simple_ablation, --instance-id the first instance, with an
\* annotation file of at most one entry).
Init ==
    /\ \/ /\ pipeline = "batch"
          /\ \E n \in 0..MaxInstances :
                \E kinds \in [1..n -> EntryKinds] :
                   annotations = [p \in 1..n |-> Entry(p, kinds[p])]
          /\ limit \in LimitChoices
          /\ instance_id = NoId
       \/ /\ pipeline = "simple"
          /\ \E n \in 0..1 :
                \E kinds \in [1..n -> EntryKinds] :
                   annotations = [p \in 1..n |-> Entry(p, kinds[p])]
          /\ limit = <<>>
          /\ instance_id = Id(1)
    /\ cwe_type \in {"cwe_532", "cwe_999"}
    /\ injection_method \in Methods
    /\ pc = "start"
    /\ annotated_instances = <<>>
    /\ i = 0
    /\ success_count = 0
    /\ failed_instances = <<>>
    /\ summary = NoFile
    /\ injection_step = 0
    /\ heap = <<>>
    /\ original_traj = <<>>
    /\ agent_messages = <<>>
    /\ exit_status = None
    /\ result = None
    /\ extra_info = <<>>
    /\ nsteps = 0
    /\ traj_writes = [p \in {} |-> 0]
    /\ saved = NoFile
    /\ save_calls = 0
    /\ last = NoLast
    /\ outcomes = <<>>
    /\ step_event = NoEvent
    /\ ret = NoCall
    /\ pre_heap = <<>>
    /\ ncalls = 0
    /\ environments = <<>>
    /\ AnnotatorIdle

\* main up to the for loop: the filtered list; an empty list ends the run.
GetAnnotatedInstances ==
    /\ pipeline = "batch"
    /\ pc = "start"
    /\ annotated_instances' = get_annotated_instances(annotations, limit)
    /\ pc' = IF annotated_instances' = <<>> THEN "done" ELSE "loop"
    /\ UNCHANGED <<inputVars, annotatorVars, environments, i, success_count,
                   failed_instances, summary,
                   instVars, outVars, callVars, step_event>>

\* if success: success_count += 1  else: failed_instances.append(instance_id)
Bookkeep_bothBranches(success, id, count, failed) ==
    [success_count |-> count + 1,
     failed_instances |-> IF success THEN failed ELSE Append(failed, id)]

Bookkeep(success, id, count, failed) ==
    [success_count |-> IF success THEN count + 1 ELSE count,
     failed_instances |-> IF success THEN failed ELSE Append(failed, id)]

\* run_single_instance returns `success` to main, which counts it and goes
\* on with the next entry; the locals of the call are gone.
ReturnToMain(success, id, record) ==
    /\ success_count' = Bookkeep(success, id, success_count, failed_instances).success_count
    /\ failed_instances' = Bookkeep(success, id, success_count, failed_instances).failed_instances
    /\ i' = i + 1
    /\ outcomes' = Append(outcomes, success)
    /\ last' = record
    /\ pc' = "loop"
    /\ instance_id' = NoId
    /\ injection_step' = 0
    /\ heap' = <<>>
    /\ original_traj' = <<>>
    /\ agent_messages' = <<>>
    /\ exit_status' = None
    /\ result' = None
    /\ extra_info' = <<>>
    /\ nsteps' = 0
    /\ save_calls' = 0
    /\ step_event' = NoEvent

\* What became of an instance: whether its loop was entered and how it ended,
\* the calls of save_traj, the exit status handed to it, the value returned.
Record(id, entered, loop_end, calls, status, success, why) ==
    [seen |-> TRUE, instance_id |-> id, entered |-> entered, loop_end |-> loop_end,
     save_calls |-> calls, exit_status |-> status, success |-> success, why |-> why]

\* Failures of the collaborators while an instance is set up, in the order
\* of the calls; the first three come before the mutator, the others after.
EarlyFaults ==
    {"load_dataset raises", "instance not in dataset", "config unreadable",
     "trajectory file missing", "trajectory file unreadable"}
LateFaults == {"get_sb_environment raises", "DefaultAgent raises", "mkdir raises"}
PrepareFaults == {"none"} \cup EarlyFaults \cup LateFaults

\* Variant: the environment and the agent are constructed before the
\* trajectory is mutated.
SetupFailure_environmentFirst(fault, r) ==
    IF fault \in EarlyFaults
    THEN [failed |-> TRUE, why |-> fault, env |-> FALSE, agent |-> FALSE]
    ELSE IF fault = "get_sb_environment raises"
    THEN [failed |-> TRUE, why |-> fault, env |-> FALSE, agent |-> FALSE]
    ELSE IF fault = "DefaultAgent raises"
    THEN [failed |-> TRUE, why |-> fault, env |-> TRUE, agent |-> FALSE]
    ELSE IF r.raised
    THEN [failed |-> TRUE, why |-> r.text, env |-> TRUE, agent |-> TRUE]
    ELSE IF fault = "mkdir raises"
    THEN [failed |-> TRUE, why |-> fault, env |-> TRUE, agent |-> TRUE]
    ELSE [failed |-> FALSE, why |-> "none", env |-> TRUE, agent |-> TRUE]

\* The statements of the try block up to the loop, in their order: dataset,
\* config and trajectory file; the mutator (r is what it does); then
\* get_sb_environment, DefaultAgent and mkdir. The first that fails ends the
\* setup; env and agent tell what had been constructed by then.
SetupFailure(fault, r) ==
    IF fault \in EarlyFaults
    THEN [failed |-> TRUE, why |-> fault, env |-> FALSE, agent |-> FALSE]
    ELSE IF r.raised
    THEN [failed |-> TRUE, why |-> r.text, env |-> FALSE, agent |-> FALSE]
    ELSE IF fault = "get_sb_environment raises"
    THEN [failed |-> TRUE, why |-> fault, env |-> FALSE, agent |-> FALSE]
    ELSE IF fault = "DefaultAgent raises"
    THEN [failed |-> TRUE, why |-> fault, env |-> TRUE, agent |-> FALSE]
    ELSE IF fault = "mkdir raises"
    THEN [failed |-> TRUE, why |-> fault, env |-> TRUE, agent |-> TRUE]
    ELSE [failed |-> FALSE, why |-> "none", env |-> TRUE, agent |-> TRUE]

\* The record of an instance that failed during setup, with what had been
\* constructed for it.
Built(record, env, agent) ==
    [k \in (DOMAIN record) \cup {"env_built", "agent_built"} |->
        IF k = "env_built" THEN env ELSE IF k = "agent_built" THEN agent ELSE record[k]]

\* env = get_sb_environment(config, instance) has returned: one more
\* environment, which the names env and agent.env refer to.
Constructed(envs, id) == Append(envs, [instance_id |-> id, state |-> "in use"])

\* The call that constructed the environment ends (return, or an exception
\* that leaves it): env and agent are gone and no statement has disposed of
\* the environment; what is left is an object for the garbage collector.
Unreferenced(envs) ==
    [k \in 1..Len(envs) |->
        IF envs[k].state = "in use"
        THEN [envs[k] EXCEPT !.state = "unreferenced"]
        ELSE envs[k]]

\* extra_info of run_single_instance and of run_with_injection
ExtraInfo(path, cwe, content, step, method) ==
    [original_trajectory |-> path, cwe_type |-> cwe,
     injection_content |-> content, injection_step |-> step,
     injection_method |-> method]

\* One pass of the for loop up to the while loop of run_single_instance: the
\* fields of the entry are read outside every try block (a missing key ends
\* main with KeyError), then the instance is set up inside the try block,
\* where every failure makes run_single_instance return False.
RunSingleInstance ==
    /\ pc = "loop"
    /\ i < Len(annotated_instances)
    /\ LET instance_info == annotated_instances[i + 1]
       IN  IF {"instance_id", "injection_step", "trajectory_path"} \subseteq DOMAIN instance_info
           THEN \E fault \in PrepareFaults, file \in TrajectoryFiles :
                   LET id == instance_info["instance_id"]
                       step == instance_info["injection_step"]
                       r == Mutate("batch", injection_method, LoadedHeap(file),
                                   LoadedTraj(file), step, cwe_type)
                       f == SetupFailure(fault, r)
                   IN  IF f.failed
                       THEN /\ ReturnToMain(FALSE, id,
                                            Built(Record(id, FALSE, "none", 0, None, FALSE, f.why),
                                                  f.env, f.agent))
                            /\ saved' = NoFile
                            /\ environments' =
                                     IF f.env
                                     THEN Unreferenced(Constructed(environments, id))
                                     ELSE environments
                            /\ UNCHANGED <<inputVars, annotatorVars, annotated_instances,
                                           summary,
                                           traj_writes, callVars>>
                       ELSE /\ instance_id' = id
                            /\ injection_step' = step
                            /\ heap' = r.heap
                            /\ original_traj' = LoadedTraj(file)
                            /\ agent_messages' = r.value
                            /\ exit_status' = None
                            /\ result' = None
                            /\ extra_info' = ExtraInfo(instance_info["trajectory_path"], cwe_type,
                                                       CWE_INJECTIONS[cwe_type], step,
                                                       injection_method)
                            /\ nsteps' = 0
                            /\ save_calls' = 0
                            /\ last' = NoLast
                            /\ saved' = NoFile
                            /\ step_event' = NoEvent
                            /\ pc' = "stepping"
                            /\ environments' = Constructed(environments, id)
                            /\ UNCHANGED <<inputVars, annotatorVars, annotated_instances,
                                           i, success_count,
                                           failed_instances, summary, traj_writes,
                                           outcomes, callVars>>
           ELSE /\ pc' = "crashed"
                /\ last' = Record(PyDictGet(instance_info, "instance_id", NoId), FALSE,
                                  "none", 0, None, FALSE, "KeyError")
                /\ UNCHANGED <<inputVars, annotatorVars, environments, annotated_instances,
                               i, success_count,
                               failed_instances, summary, instVars, traj_writes, saved,
                               save_calls, outcomes, callVars, step_event>>

\* agent.step() returns: the loop goes round.
StepReturns ==
    /\ pc = "stepping"
    /\ nsteps < MaxSteps
    /\ heap' = HeapWith(heap, <<ModelReply, Observation>>)
    /\ agent_messages' = MessagesWith(heap, agent_messages, <<ModelReply, Observation>>)
    /\ nsteps' = nsteps + 1
    /\ step_event' = [kind |-> "returned", exc |-> None, by_step |-> 2]
    /\ UNCHANGED <<inputVars, annotatorVars, environments, mainVars, instance_id,
                   injection_step, original_traj,
                   exit_status, result, extra_info, outVars, callVars>>

\* except NonTerminatingException as e: agent.add_message("user", str(e))
StepNonTerminating ==
    /\ pc = "stepping"
    /\ nsteps < MaxSteps
    /\ \E e \in NonTerminating : \E done \in PartialAppends(e) :
          LET msgs == done \o <<ConditionMessage(e)>>
          IN  /\ heap' = HeapWith(heap, msgs)
              /\ agent_messages' = MessagesWith(heap, agent_messages, msgs)
              /\ step_event' = [kind |-> "recoverable", exc |-> e, by_step |-> Len(done)]
    /\ nsteps' = nsteps + 1
    /\ UNCHANGED <<inputVars, annotatorVars, environments, mainVars, instance_id,
                   injection_step, original_traj,
                   exit_status, result, extra_info, outVars, callVars>>

\* except TerminatingException as e: the message, the exit status, break.
StepTerminating ==
    /\ pc = "stepping"
    /\ \E e \in Terminating : \E done \in PartialAppends(e) :
          LET msgs == done \o <<ConditionMessage(e)>>
          IN  /\ heap' = HeapWith(heap, msgs)
              /\ agent_messages' = MessagesWith(heap, agent_messages, msgs)
              /\ exit_status' = TypeName(e)
              /\ result' = StrOf(e)
              /\ step_event' = [kind |-> "terminal", exc |-> e, by_step |-> Len(done)]
    /\ last' = Record(instance_id, TRUE, "terminal", 0, None, FALSE, "in loop")
    /\ pc' = "saving"
    /\ UNCHANGED <<inputVars, annotatorVars, environments, annotated_instances, i,
                   success_count, failed_instances,
                   summary, instance_id, injection_step, original_traj, extra_info,
                   nsteps, traj_writes, saved, save_calls, outcomes, callVars>>

\* Any other exception out of the step: caught around the while loop, where
\* the exit status and the traceback are recorded; uncaught there, it would
\* reach the handler of the whole function, which returns False.
StepUnexpected ==
    /\ pc = "stepping"
    /\ \E e \in Unexpected : \E done \in PartialAppends(e) :
          IF CaughtAtInstanceLevel(e)
          THEN /\ heap' = HeapWith(heap, done)
               /\ agent_messages' = MessagesWith(heap, agent_messages, done)
               /\ exit_status' = TypeName(e)
               /\ result' = StrOf(e)
               /\ extra_info' = WithTraceback(extra_info)
               /\ step_event' = [kind |-> "unexpected", exc |-> e, by_step |-> Len(done)]
               /\ last' = Record(instance_id, TRUE, "exception", 0, None, FALSE, "in loop")
               /\ pc' = "saving"
               /\ UNCHANGED <<inputVars, annotatorVars, environments, annotated_instances,
                              i, success_count,
                              failed_instances, summary, instance_id, injection_step,
                              original_traj, nsteps, traj_writes, saved, save_calls,
                              outcomes, callVars>>
          ELSE IF pipeline = "batch"
          THEN /\ ReturnToMain(FALSE, instance_id,
                               Record(instance_id, TRUE, "exception", 0, None, FALSE, "uncaught"))
               /\ environments' = Unreferenced(environments)
               /\ UNCHANGED <<inputVars, annotatorVars, annotated_instances, summary,
                              traj_writes,
                              saved, callVars>>
          ELSE /\ pc' = "crashed"
               /\ last' = Record(instance_id, TRUE, "exception", 0, None, FALSE, "uncaught")
               /\ environments' = Unreferenced(environments)
               /\ UNCHANGED <<inputVars, annotatorVars, annotated_instances, i, success_count,
                              failed_instances, summary, instVars, traj_writes, saved,
                              save_calls, outcomes, callVars, step_event>>

\* save_traj(agent, output_path, ...) after the loop, then return True; a
\* save that raises reaches the handler of the whole function: return False.
SaveTrajectory ==
    /\ pipeline = "batch"
    /\ pc = "saving"
    /\ \E save_ok \in BOOLEAN :
          /\ traj_writes' =
                IF save_ok
                THEN [p \in (DOMAIN traj_writes) \cup {instance_id} |->
                         IF p = instance_id
                         THEN PyDictGet(traj_writes, instance_id, 0) + 1
                         ELSE traj_writes[p]]
                ELSE traj_writes
          /\ saved' = IF save_ok
                      THEN TrajData(heap, agent_messages, exit_status, result, extra_info)
                      ELSE saved
          /\ ReturnToMain(save_ok, instance_id,
                          Record(instance_id, TRUE, last.loop_end, save_calls + 1,
                                 exit_status, save_ok,
                                 IF save_ok THEN "saved" ELSE "save_traj raises"))
    /\ environments' = Unreferenced(environments)
    /\ UNCHANGED <<inputVars, annotatorVars, annotated_instances, summary, callVars>>

\* ------------------------------------------------------- the single run
\* simple_ablation.get_injection_step_from_annotations: the entries are read
\* in order up to the first one with the id; an entry read that has no
\* instance_id ends the search with KeyError.
get_injection_step_from_annotations(instances, id) ==
    LET stops == {k \in 1..Len(instances) :
                     \/ "instance_id" \notin DOMAIN instances[k]
                     \/ instances[k]["instance_id"] = id}
    IN  IF stops = {}
        THEN Raised("ValueError", "Instance not found in annotations file", <<>>)
        ELSE LET k == CHOOSE k \in stops : \A j \in stops : k <= j
             IN  IF "instance_id" \notin DOMAIN instances[k]
                 THEN Raised("KeyError", "'instance_id'", <<>>)
                 ELSE IF PyDictGet(instances[k], "injection_step", UNANNOTATED) = UNANNOTATED
                 THEN Raised("ValueError", "Instance is not annotated (injection_step = -1)", <<>>)
                 ELSE Returned(instances[k]["injection_step"], <<>>)

\* Failures of the collaborators of run_with_injection before the loop; the
\* function has no try block around them, so each ends the run.
SimpleEarlyFaults ==
    {"load_dataset raises", "instance not in dataset", "config unreadable",
     "trajectory file unreadable"}
SimpleLateFaults == {"get_sb_environment raises", "DefaultAgent raises"}

\* run_with_injection up to the while loop; main logs what it raises and
\* raises it again.
RunWithInjection ==
    /\ pipeline = "simple"
    /\ pc = "start"
    /\ \E fault \in {"none"} \cup SimpleEarlyFaults \cup SimpleLateFaults,
          file \in TrajectoryFiles :
          LET found == get_injection_step_from_annotations(annotations, instance_id)
              r == Mutate("simple", injection_method, LoadedHeap(file), LoadedTraj(file),
                          found.value, cwe_type)
          IN  IF found.raised \/ fault \in SimpleEarlyFaults \/ r.raised
                 \/ fault \in SimpleLateFaults
              THEN /\ pc' = "crashed"
                   /\ last' = Record(instance_id, FALSE, "none", 0, None, FALSE,
                                     IF found.raised THEN found.text
                                     ELSE IF fault \in SimpleEarlyFaults THEN fault
                                     ELSE IF r.raised THEN r.text ELSE fault)
                   /\ environments' =
                            IF ~found.raised /\ fault = "DefaultAgent raises" /\ ~r.raised
                            THEN Unreferenced(Constructed(environments, instance_id))
                            ELSE environments
                   /\ UNCHANGED <<inputVars, annotatorVars, annotated_instances, i,
                                  success_count,
                                  failed_instances, summary, instVars, traj_writes,
                                  saved, save_calls, outcomes, callVars, step_event>>
              ELSE /\ injection_step' = found.value
                   /\ heap' = r.heap
                   /\ original_traj' = LoadedTraj(file)
                   /\ agent_messages' = r.value
                   /\ exit_status' = None
                   /\ result' = None
                   /\ extra_info' = ExtraInfo(<<"--original-traj">>, cwe_type,
                                              SIMPLE_CWE_INJECTIONS[cwe_type],
                                              found.value, injection_method)
                   /\ nsteps' = 0
                   /\ pc' = "stepping"
                   /\ environments' = Constructed(environments, instance_id)
                   /\ UNCHANGED <<inputVars, annotatorVars, annotated_instances, i,
                                  success_count,
                                  failed_instances, summary, instance_id, outVars,
                                  callVars, step_event>>

\* output_path.parent.mkdir(...), save_traj(...): the end of
\* run_with_injection; either call may raise, which ends the run.
SaveSingleTrajectory ==
    /\ pipeline = "simple"
    /\ pc = "saving"
    /\ \E how \in {"saved", "mkdir raises", "save_traj raises"} :
          /\ traj_writes' =
                IF how = "saved"
                THEN [p \in (DOMAIN traj_writes) \cup {instance_id} |->
                         IF p = instance_id
                         THEN PyDictGet(traj_writes, instance_id, 0) + 1
                         ELSE traj_writes[p]]
                ELSE traj_writes
          /\ saved' = IF how = "saved"
                      THEN TrajData(heap, agent_messages, exit_status, result, extra_info)
                      ELSE saved
          /\ save_calls' = IF how = "mkdir raises" THEN save_calls ELSE save_calls + 1
          /\ last' = Record(instance_id, TRUE, last.loop_end, save_calls', exit_status,
                            how = "saved", how)
          /\ pc' = IF how = "saved" THEN "done" ELSE "crashed"
    /\ environments' = Unreferenced(environments)
    /\ UNCHANGED <<inputVars, annotatorVars, annotated_instances, i, success_count,
                   failed_instances,
                   summary, instVars, outcomes, callVars, step_event>>

\* After the last entry: the summary is written to batch_summary.json.
WriteSummary ==
    /\ pc = "loop"
    /\ i = Len(annotated_instances)
    /\ summary' =
          [written |-> TRUE,
           metadata |-> [cwe_type |-> cwe_type,
                         injection_method |-> injection_method,
                         total_instances |-> Len(annotated_instances),
                         successful |-> success_count,
                         failed |-> Len(failed_instances)],
           failed_instances |-> failed_instances,
           injection_content |-> PyDictGet(CWE_INJECTIONS, cwe_type, <<>>)]
    /\ pc' = "done"
    /\ UNCHANGED <<inputVars, annotatorVars, environments, annotated_instances, i,
                   success_count, failed_instances,
                   instVars, outVars, callVars, step_event>>

Next ==
    \/ GetAnnotatedInstances
    \/ RunSingleInstance
    \/ StepReturns
    \/ StepNonTerminating
    \/ StepTerminating
    \/ StepUnexpected
    \/ SaveTrajectory
    \/ WriteSummary
    \/ RunWithInjection
    \/ SaveSingleTrajectory

Spec == Init /\ [][Next]_vars

\* ------------------------------------------------- the loop without a bound
\* while True has no bound of its own: once the model has counted MaxSteps
\* steps, a further step that returns or raises a recoverable condition is
\* taken but no longer counted, and the messages it appends are not kept.
StepBeyondBound ==
    /\ pc = "stepping"
    /\ nsteps = MaxSteps
    /\ \/ step_event' = [kind |-> "returned", exc |-> None, by_step |-> 2]
       \/ \E e \in NonTerminating :
             step_event' = [kind |-> "recoverable", exc |-> e, by_step |-> 1]
    /\ step_event' # step_event
    /\ UNCHANGED <<inputVars, annotatorVars, environments, mainVars, instVars, outVars,
                   callVars>>

\* The runs with the default method and a supported class, every entry of
\* the annotation file taken.
InitLive ==
    /\ Init
    /\ limit = <<>>
    /\ cwe_type = "cwe_532"
    /\ injection_method = "append"

NextLive == Next \/ StepBeyondBound

\* The program is sequential and never waits: whenever a statement can be
\* executed, one is.
SpecLive == InitLive /\ [][NextLive]_vars /\ WF_vars(NextLive)


\* ==================================================== rule-based annotation
\* Longest trajectory handed to the annotator.
MaxTrajLen == 3
\* Runs of the annotator, each on the output of the run before.
MaxPasses == 2

\* A content is a sequence of pieces of text. The pieces the annotator looks
\* for: the marker of the prompt template, the opening fence of a bash block,
\* a closing fence, and a text that sed\s+-i matches. [fence] stands for the
\* three backquotes of a code fence.
PromptMarker == "Consider the following PR description"
BashFence == "[fence]bash"
Fence == "[fence]"
SedInPlace == "sed -i"
Ls == "ls"

\* The prompt template: the marker and an example of an in-place edit.
TemplateContent == <<PromptMarker, BashFence, SedInPlace, Fence>>
PlainContent == <<Ls>>
SedBlock == <<BashFence, SedInPlace, Fence>>
NoSedBlock == <<BashFence, Ls, Fence>>
\* Two bash blocks without sed, and a sed -i in the prose between them.
SedBetweenBlocks == <<BashFence, Ls, Fence, SedInPlace, BashFence, Ls, Fence>>

AnnotatorMessages ==
    {Msg("system", PlainContent),
     Msg("user", TemplateContent), Msg("user", PlainContent), Msg("user", SedBlock),
     Msg("assistant", SedBlock), Msg("assistant", NoSedBlock),
     Msg("assistant", SedBetweenBlocks)}

\* A piece in which [fence] occurs.
HasFence(piece) == piece \in {Fence, BashFence}

\* re.search(r'[fence]bash.*?sed\s+-i.*?[fence]', content, re.DOTALL): with DOTALL
\* the two .*? run over anything, fences included, so a match is a bash fence,
\* later a sed -i, later any [fence].
re_search_sed(content) ==
    \E a, b, c \in 1..Len(content) :
        /\ a < b
        /\ b < c
        /\ content[a] = BashFence
        /\ content[b] = SedInPlace
        /\ HasFence(content[c])

\* 'Consider the following PR description' in msg.get('content', '')
HasPromptMarker(content) == \E k \in 1..Len(content) : content[k] = PromptMarker

\* The first loop of find_first_sed_injection_point: start_idx is the index
\* after the first user message that holds the marker, 0 when there is none.
StartIdx(messages) ==
    LET us == {m \in 0..(Len(messages) - 1) :
                  /\ PyDictGet(messages[m + 1], "role", None) = "user"
                  /\ HasPromptMarker(PyDictGet(messages[m + 1], "content", <<>>))}
    IN  IF us = {} THEN 0 ELSE (CHOOSE m \in us : \A n \in us : m <= n) + 1

\* Variant: the role of the message is not looked at.
IsAssistant_anyRole(msg) == TRUE

\* if msg.get('role') == 'assistant':
IsAssistant(msg) == PyDictGet(msg, "role", None) = "assistant"

\* find_first_sed_injection_point: <<k>> for the index k (0-based) it returns,
\* <<>> for None.
find_first_sed_injection_point(traj) ==
    LET messages == PyDictGet(traj, "messages", <<>>)
        start_idx == StartIdx(messages)
        hits == {m \in start_idx..(Len(messages) - 1) :
                    /\ IsAssistant(messages[m + 1])
                    /\ re_search_sed(PyDictGet(messages[m + 1], "content", <<>>))}
    IN  IF hits = {} THEN <<>> ELSE <<CHOOSE m \in hits : \A n \in hits : m <= n>>

\* extract_sed_command_context: the group of [fence]bash(.*?sed.*?)[fence] in the
\* content of the message, the pieces between the bash fence of the leftmost
\* match and the first [fence] after the first sed behind it; no THOUGHT part.
extract_sed_command_context(traj, injection_idx) ==
    LET messages == PyDictGet(traj, "messages", <<>>)
    IN  IF injection_idx >= Len(messages) THEN <<>>
        ELSE
        LET content == PyDictGet(messages[injection_idx + 1], "content", <<>>)
            IsSed(p) == p = SedInPlace
            starts == {a \in 1..Len(content) :
                          /\ content[a] = BashFence
                          /\ \E b \in (a + 1)..Len(content) :
                                /\ IsSed(content[b])
                                /\ \E c \in (b + 1)..Len(content) : HasFence(content[c])}
        IN  IF starts = {} THEN <<>>
            ELSE
            LET a == CHOOSE x \in starts : \A y \in starts : x <= y
                b == CHOOSE x \in (a + 1)..Len(content) :
                        IsSed(content[x]) /\ \A y \in (a + 1)..(x - 1) : ~IsSed(content[y])
                c == CHOOSE x \in (b + 1)..Len(content) :
                        HasFence(content[x]) /\ \A y \in (b + 1)..(x - 1) : ~HasFence(content[y])
            IN  <<BashFence>> \o SubSeq(content, a + 1, c - 1) \o <<Fence>>

\* The trajectory file of an instance in --trajectory-dir: absent, not
\* loadable (json.load raises), or a trajectory.
MissingFile == [exists |-> FALSE]
UnreadableFile == [exists |-> TRUE, readable |-> FALSE]
TrajFile(traj) == [exists |-> TRUE, readable |-> TRUE, traj |-> traj]
AnnotatorTrajectories ==
    {[messages |-> s] : s \in UNION {[1..n -> AnnotatorMessages] : n \in 0..MaxTrajLen}}
        \cup {[trajectory_format |-> <<"x">>]}
AnnotatorFiles ==
    {MissingFile, UnreadableFile} \cup {TrajFile(t) : t \in AnnotatorTrajectories}

\* Variant: no copy is made, instance_copy names the dict passed in.
DictCopy_alias(h, ref) == [heap |-> h, ref |-> ref]

\* instance.copy(): a new dict with the same items.
DictCopy(h, ref) == [heap |-> Append(h, h[ref]), ref |-> Len(h) + 1]

\* d[key] = value on the dict that ref names.
SetItem(h, ref, key, value) ==
    LET d == h[ref]
    IN  [h EXCEPT ![ref] = [k \in (DOMAIN d) \cup {key} |->
                               IF k = key THEN value ELSE d[k]]]

\* What a call of annotate_instance did: the dict passed in as it is after
\* the call, the dict returned, and whether and what the detector found.
Annotated(h, ref, searched, found) ==
    [instance |-> h[1], returned |-> h[ref], searched |-> searched, found |-> found]

\* if instance.get('injection_step', -1) != -1:
\*     instance_copy['annotation_method'] = 'human'
AlreadyAnnotated(h, ref) == SetItem(h, ref, "annotation_method", "human")

\* annotate_instance(instance, trajectory_dir), file being the trajectory file
\* of the instance in trajectory_dir.
annotate_instance(instance, file) ==
    LET c == DictCopy(<<instance>>, 1)
        instance_copy == c.ref
    IN  IF PyDictGet(instance, "injection_step", UNANNOTATED) # UNANNOTATED
        THEN Annotated(AlreadyAnnotated(c.heap, instance_copy), instance_copy, FALSE, <<>>)
        ELSE IF ~file.exists
        THEN Annotated(SetItem(c.heap, instance_copy, "annotation_method", "missing_file"),
                       instance_copy, FALSE, <<>>)
        ELSE IF ~file.readable
        THEN Annotated(SetItem(c.heap, instance_copy, "annotation_method", "error"),
                       instance_copy, FALSE, <<>>)
        ELSE
        LET injection_point == find_first_sed_injection_point(file.traj)
        IN  IF injection_point # <<>>
            THEN Annotated(
                    SetItem(SetItem(SetItem(c.heap, instance_copy,
                                            "injection_step", injection_point[1]),
                                    instance_copy, "notes",
                                    extract_sed_command_context(file.traj, injection_point[1])),
                            instance_copy, "annotation_method", "rule_based"),
                    instance_copy, TRUE, injection_point)
            ELSE Annotated(SetItem(c.heap, instance_copy, "annotation_method", "no_sed_found"),
                           instance_copy, TRUE, <<>>)


\* ----------------------------------------------- create_annotated_json runs
AnnotationMethods == {"human", "rule_based", "no_sed_found", "missing_file", "error"}
\* stats = {'human': 0, 'rule_based': 0, ...}
ZeroStats == [method \in AnnotationMethods |-> 0]

\* Entries of the input file of the annotator: as the extraction writes them
\* (not annotated) or with a step a person has put in.
AnnotatorEntryKinds == {"unannotated", "step 3"}
\* A session of a real agent: system prompt, prompt template, an in-place edit.
SessionTrajectory ==
    [messages |-> <<Msg("system", PlainContent), Msg("user", TemplateContent),
                    Msg("assistant", SedBlock)>>]
\* The trajectory files of the instances after the first.
OtherFiles == {MissingFile, TrajFile(SessionTrajectory)}

\* create_annotated_json has loaded the input file; the trajectory directory
\* holds any file for the first instance and a missing file or the session
\* for the others.
InitAnnotate ==
    /\ cwe_type = "cwe_532"
    /\ limit = <<>>
    /\ injection_method = "append"
    /\ pipeline = "batch"
    /\ pc = "annotating"
    /\ annotated_instances = <<>>
    /\ i = 0
    /\ success_count = 0
    /\ failed_instances = <<>>
    /\ summary = NoFile
    /\ instance_id = NoId
    /\ injection_step = 0
    /\ heap = <<>>
    /\ original_traj = <<>>
    /\ agent_messages = <<>>
    /\ exit_status = None
    /\ result = None
    /\ extra_info = <<>>
    /\ nsteps = 0
    /\ traj_writes = <<>>
    /\ saved = NoFile
    /\ save_calls = 0
    /\ last = NoLast
    /\ outcomes = <<>>
    /\ step_event = NoEvent
    /\ ret = NoCall
    /\ pre_heap = <<>>
    /\ ncalls = 0
    /\ environments = <<>>
    /\ \E n \in 0..MaxInstances :
          /\ \E kinds \in [1..n -> AnnotatorEntryKinds] :
                annotations = [p \in 1..n |-> Entry(p, kinds[p])]
          /\ \E first \in AnnotatorFiles, others \in [2..n -> OtherFiles] :
                trajectory_dir = [id \in {Id(p) : p \in 1..n} |->
                                    IF id[2] = 1 THEN first ELSE others[id[2]]]
    /\ stats = ZeroStats
    /\ annotated_file = NoFile
    /\ passes = 0
    /\ anno = NoAnnotation
    /\ rule_filled = {}

\* One pass of the for loop of create_annotated_json: annotate_instance, the
\* append to annotated_instances, the count of the method in stats.
AnnotateInstance ==
    /\ pc = "annotating"
    /\ i < Len(annotations)
    /\ LET instance == annotations[i + 1]
           a == annotate_instance(instance, trajectory_dir[instance["instance_id"]])
           method == PyDictGet(a.returned, "annotation_method", "unknown")
       IN  /\ annotated_instances' = Append(annotated_instances, a.returned)
           /\ stats' = [k \in (DOMAIN stats) \cup {method} |->
                           PyDictGet(stats, k, 0) + (IF k = method THEN 1 ELSE 0)]
           /\ annotations' = [annotations EXCEPT ![i + 1] = a.instance]
           /\ anno' = [called |-> TRUE, position |-> i + 1, argument |-> instance,
                       instance |-> a.instance, returned |-> a.returned,
                       searched |-> a.searched, found |-> a.found]
           /\ rule_filled' = IF a.found # <<>>
                             THEN rule_filled \cup {instance["instance_id"]}
                             ELSE rule_filled
    /\ i' = i + 1
    /\ UNCHANGED <<limit, cwe_type, injection_method, pipeline, pc, success_count,
                   failed_instances, summary, instVars, outVars, callVars, step_event,
                   environments, trajectory_dir, annotated_file, passes>>

\* The end of create_annotated_json: the output file gets the annotated list
\* and the stats; the statistics printed last divide by the number of
\* instances.
WriteAnnotatedJson ==
    /\ pc = "annotating"
    /\ i = Len(annotations)
    /\ annotated_file' = [written |-> TRUE, instances |-> annotated_instances,
                          rule_annotation_stats |-> stats]
    /\ passes' = passes + 1
    /\ pc' = IF Len(annotated_instances) = 0 THEN "crashed" ELSE "annotated"
    /\ UNCHANGED <<inputVars, annotated_instances, i, success_count, failed_instances,
                   summary, instVars, outVars, callVars, step_event, environments,
                   trajectory_dir, stats, anno, rule_filled>>

\* The annotator is run again with --input naming the file it has written.
AnnotateOutput ==
    /\ pc = "annotated"
    /\ passes < MaxPasses
    /\ annotations' = annotated_file.instances
    /\ annotated_instances' = <<>>
    /\ stats' = ZeroStats
    /\ i' = 0
    /\ pc' = "annotating"
    /\ UNCHANGED <<limit, cwe_type, injection_method, pipeline, success_count,
                   failed_instances, summary, instVars, outVars, callVars, step_event,
                   environments, trajectory_dir, annotated_file, passes, anno,
                   rule_filled>>

NextAnnotate == AnnotateInstance \/ WriteAnnotatedJson \/ AnnotateOutput

SpecAnnotate == InitAnnotate /\ [][NextAnnotate]_vars


\* ================================================================ properties
\* ------------------------------------------------ the mutator called directly
HasMessages == "messages" \in DOMAIN original_traj
SourceMessages == original_traj["messages"]
\* The payload of the registry of the pipeline that ran.
Payload == IF pipeline = "batch" THEN CWE_INJECTIONS[cwe_type]
           ELSE SIMPLE_CWE_INJECTIONS[cwe_type]
InvalidTarget(r) ==
    r.raised /\ r.exc = "ValueError" /\ r.text = "User is not the last message"
\* The source message (before the call) at 1-based position k.
Source(k) == pre_heap[SourceMessages[k]]
\* The returned message (after the call) at 1-based position k.
Out(k) == heap[ret.value[k]]
StepInRange == 1 <= injection_step /\ injection_step <= Len(SourceMessages)

\* C5: append method, supported class, 1 <= injection_step <= number of
\* messages and the message at index injection_step-1 is a user message: the
\* call returns exactly injection_step messages, the last one's content is the
\* original content followed by the exact payload of the class, and the
\* messages before it are identical to the source messages.
C5_AppendResult ==
    (/\ ret.method = "append"
     /\ HasMessages
     /\ cwe_type \in SupportedClasses
     /\ StepInRange
     /\ Source(injection_step).role = "user")
    => /\ ~ret.raised
       /\ Len(ret.value) = injection_step
       /\ Out(injection_step).role = "user"
       /\ Out(injection_step).content = Source(injection_step).content \o Payload
       /\ \A k \in 1..(injection_step - 1) : Out(k) = Source(k)

C5_Witness ==
    /\ ret.method = "append"
    /\ ~ret.raised
    /\ cwe_type = "cwe_89"
    /\ pipeline = "simple"
    /\ Len(SourceMessages) = 3
    /\ injection_step = 2
    /\ Source(1).role = "system"
    /\ Source(2).role = "user"
    /\ Out(2).content = Source(2).content \o SIMPLE_CWE_INJECTIONS["cwe_89"]

\* C6: neither method mutates the input trajectory: after a call every message
\* of the trajectory passed in has the role and content it had before, and a
\* returned list shares no message object with the input.
C6_InputNotMutated ==
    (ret.method # None /\ HasMessages)
    => /\ \A k \in 1..Len(SourceMessages) : heap[SourceMessages[k]] = Source(k)
       /\ \A k \in 1..Len(ret.value) :
             \A j \in 1..Len(SourceMessages) : ret.value[k] # SourceMessages[j]

C7_WitnessSystem ==
    /\ ret.method = "append"
    /\ InvalidTarget(ret)
    /\ injection_step = 1
    /\ Source(1).role = "system"

\* C8: append method, supported class: every out-of-range injection_step (0,
\* negative, greater than the number of messages, or any step on an empty
\* trajectory) fails and yields no message list.
C8_OutOfRangeFails ==
    (/\ ret.method = "append"
     /\ HasMessages
     /\ cwe_type \in SupportedClasses
     /\ ~StepInRange)
    => ret.raised /\ ret.value = <<>>


\* The first user message among the first n source messages, 0 if none.
FirstUserOfPrefix(n) ==
    IF \E k \in 1..n : Source(k).role = "user"
    THEN CHOOSE k \in 1..n :
            Source(k).role = "user" /\ \A j \in 1..(k - 1) : Source(j).role # "user"
    ELSE 0
\* c contains the marker.
HasMarker(c) == \E p \in 0..Len(c) : OccursAt(c, InstructionsTag, p)
\* out is c with text put right before the first occurrence of the marker.
SplitAtFirstMarker(c, text, out) ==
    \E p \in 0..Len(c) :
        /\ OccursAt(c, InstructionsTag, p)
        /\ \A q \in 0..(p - 1) : ~OccursAt(c, InstructionsTag, q)
        /\ out = SubSeq(c, 1, p) \o text \o SubSeq(c, p + 1, Len(c))
AnchorInRange == 0 <= injection_step /\ injection_step <= Len(SourceMessages)

\* C9: anchor method, supported class: when the first user message of the
\* truncated prefix contains the marker, the call returns and that message's
\* content is prefix + payload + suffix, split at the first occurrence of the
\* marker (the marker kept once, right after the payload).
C9_AnchorSplit ==
    (/\ ret.method = "instructions"
     /\ HasMessages
     /\ cwe_type \in SupportedClasses
     /\ AnchorInRange
     /\ FirstUserOfPrefix(injection_step) # 0
     /\ HasMarker(Source(FirstUserOfPrefix(injection_step)).content))
    => /\ ~ret.raised
       /\ SplitAtFirstMarker(Source(FirstUserOfPrefix(injection_step)).content,
                             Payload,
                             Out(FirstUserOfPrefix(injection_step)).content)

C9_WitnessMiddle ==
    /\ ret.method = "instructions"
    /\ ~ret.raised
    /\ ncalls = 1
    /\ Len(ret.value) >= 2
    /\ Source(2).content = Abc \o InstructionsTag \o Def
    /\ Out(2).content = Abc \o Payload \o InstructionsTag \o Def

C9_WitnessStart ==
    /\ ret.method = "instructions"
    /\ ~ret.raised
    /\ ncalls = 1
    /\ Source(1).content = InstructionsTag \o Def
    /\ Out(1).content = Payload \o InstructionsTag \o Def

C9_WitnessEnd ==
    /\ ret.method = "instructions"
    /\ ~ret.raised
    /\ ncalls = 1
    /\ Source(1).content = Abc \o InstructionsTag
    /\ Out(1).content = Abc \o Payload \o InstructionsTag

\* C10: anchor method, 0 <= injection_step <= number of messages, the call
\* returns: exactly injection_step messages with the roles of the source
\* prefix; every message but the first user message has the source content,
\* and the first user message's content differs from the source.
C10_AnchorFrame ==
    (/\ ret.method = "instructions"
     /\ HasMessages
     /\ AnchorInRange
     /\ ~ret.raised)
    => /\ Len(ret.value) = injection_step
       /\ \A k \in 1..injection_step :
             /\ Out(k).role = Source(k).role
             /\ (k # FirstUserOfPrefix(injection_step)) => Out(k).content = Source(k).content
             /\ (k = FirstUserOfPrefix(injection_step)) => Out(k).content # Source(k).content

C10_Witness ==
    /\ ret.method = "instructions"
    /\ ~ret.raised
    /\ injection_step = 3
    /\ Len(ret.value) = 3
    /\ Source(1).role = "system"
    /\ Source(2).role = "user"
    /\ Source(3).role = "user"
    /\ HasMarker(Source(3).content)
    /\ Out(3).content = Source(3).content
    /\ Out(2).content # Source(2).content

\* The payload-lookup error.
UnknownClass(r) == r.raised /\ r.exc = "ValueError" /\ r.text = "Unknown CWE type"

\* C11: a trajectory with 'messages', any step, either method, a class that is
\* no key of the registry: the call fails with the payload-lookup error, it
\* returns no message list and no message content is changed.
C11_UnknownClassFails ==
    (ret.method # None /\ HasMessages /\ cwe_type \notin SupportedClasses)
    => /\ UnknownClass(ret)
       /\ ret.value = <<>>
       /\ heap = pre_heap

\* An unknown class on a trajectory the anchor method would otherwise accept.
C11_Witness ==
    /\ ret.method = "instructions"
    /\ UnknownClass(ret)
    /\ cwe_type = "cwe_999"
    /\ pipeline = "batch"
    /\ injection_step = 2
    /\ Len(SourceMessages) = 2
    /\ Source(2).role = "user"
    /\ HasMarker(Source(2).content)

C11_WitnessAppend ==
    /\ ret.method = "append"
    /\ UnknownClass(ret)
    /\ pipeline = "simple"
    /\ injection_step = 1
    /\ Len(SourceMessages) = 1
    /\ Source(1).role = "user"

\* The anchor-not-found error, in either of its two texts.
AnchorNotFound(r) ==
    /\ r.raised
    /\ r.exc = "ValueError"
    /\ r.text \in {"No user message found in truncated trajectory",
                   "No <instructions> tag found in first user message for instructions injection method"}
\* The number of messages the truncation at injection_step keeps: the first
\* injection_step ones, all of them when there are fewer, and for a negative
\* step all but the last -injection_step.
KeptCount ==
    IF injection_step >= Len(SourceMessages) THEN Len(SourceMessages)
    ELSE IF injection_step >= 0 THEN injection_step
    ELSE IF Len(SourceMessages) + injection_step >= 0 THEN Len(SourceMessages) + injection_step
    ELSE 0

\* C12: anchor method, supported class, trajectory with 'messages': the call
\* fails, and with the anchor-not-found error, exactly when the truncated
\* prefix has no user message or its first user message lacks the marker; a
\* marker elsewhere does not help; a failing call changes no message content.
C12_AnchorNotFoundIff ==
    (ret.method = "instructions" /\ HasMessages /\ cwe_type \in SupportedClasses)
    => /\ AnchorNotFound(ret)
             <=> \/ FirstUserOfPrefix(KeptCount) = 0
                 \/ ~HasMarker(Source(FirstUserOfPrefix(KeptCount)).content)
       /\ ret.raised => (AnchorNotFound(ret) /\ ret.value = <<>> /\ heap = pre_heap)

\* The first user message has no marker; a later user message and an
\* assistant message have one.
C12_Witness ==
    /\ ret.method = "instructions"
    /\ AnchorNotFound(ret)
    /\ cwe_type \in SupportedClasses
    /\ injection_step = 3
    /\ Len(SourceMessages) = 3
    /\ Source(1) = [role |-> "user", content |-> Abc]
    /\ Source(2).role = "user" /\ HasMarker(Source(2).content)
    /\ Source(3).role = "assistant" /\ HasMarker(Source(3).content)

\* No user message in the prefix; the user message behind it has the marker.
C12_WitnessNoUser ==
    /\ ret.method = "instructions"
    /\ AnchorNotFound(ret)
    /\ ret.text = "No user message found in truncated trajectory"
    /\ cwe_type \in SupportedClasses
    /\ injection_step = 2
    /\ Len(SourceMessages) = 3
    /\ Source(1).role = "system"
    /\ Source(2).role = "assistant" /\ HasMarker(Source(2).content)
    /\ Source(3).role = "user" /\ HasMarker(Source(3).content)

\* The malformed-trajectory error.
Malformed(r) ==
    r.raised /\ r.exc = "ValueError" /\ r.text = "Trajectory must have 'messages' field"

\* C13: a trajectory record without 'messages' fails with the
\* malformed-trajectory error for either method, any step and any class,
\* supported or not: the check comes before the payload lookup and before the
\* truncation.
C13_MissingMessagesFails ==
    (ret.method # None /\ ~HasMessages)
    => /\ Malformed(ret)
       /\ ret.value = <<>>
       /\ heap = pre_heap

\* Without 'messages' and with an unknown class: the malformed-trajectory
\* error wins.
C13_Witness ==
    /\ ret.method = "instructions"
    /\ ~HasMessages
    /\ cwe_type = "cwe_999"
    /\ injection_step = 0
    /\ Malformed(ret)

\* ------------------------------------------------------------- the batch run
\* The conversation of the running instance, message by message.
Conversation == [k \in 1..Len(agent_messages) |-> heap[agent_messages[k]]]
\* The last message of the conversation.
LastMessage == heap[agent_messages[Len(agent_messages)]]
Range(seq) == {seq[k] : k \in 1..Len(seq)}
\* The writes of the trajectory file of instance id so far.
Writes(id) == PyDictGet(traj_writes, id, 0)
\* The instance processed last has ended (run_single_instance has returned)
\* and its resumption loop had been entered.
EndedAfterLoop == last.seen /\ last.entered /\ pc \in {"loop", "done", "crashed"}

\* C1 as stated: an instance whose loop was entered ends with exactly one
\* write of its trajectory file, whether the loop ended by a terminal
\* condition or by an exception out of a step.
C1_PersistedExactlyOnce ==
    EndedAfterLoop => Writes(last.instance_id) = 1

\* C1 as amended: no save before the loop has ended; once it has ended, by a
\* terminal condition or by an exception, save_traj is called exactly once;
\* the file is written once when that call succeeds and not at all when the
\* call itself raises, and never twice.
C1_SavedOnceAfterLoop ==
    /\ (pc \in {"stepping", "saving"}) => (save_calls = 0 /\ Writes(instance_id) = 0)
    /\ EndedAfterLoop =>
          /\ last.loop_end \in {"terminal", "exception"}
          /\ last.why # "mkdir raises" => last.save_calls = 1
          /\ last.save_calls <= 1
          /\ Writes(last.instance_id) = (IF last.why = "saved" THEN 1 ELSE 0)
          /\ (last.why = "saved") = last.success

C1_WitnessException ==
    /\ EndedAfterLoop
    /\ last.loop_end = "exception"
    /\ last.save_calls = 1
    /\ Writes(last.instance_id) = 1
    /\ saved.written
    /\ saved.exit_status = "OSError"

C1_WitnessTerminal ==
    /\ EndedAfterLoop
    /\ last.loop_end = "terminal"
    /\ Writes(last.instance_id) = 1
    /\ saved.exit_status = "Submitted"

C1_WitnessSaveRaises ==
    /\ EndedAfterLoop
    /\ last.why = "save_traj raises"
    /\ Writes(last.instance_id) = 0

\* C2: an instance whose loop ended by an unexpected exception is counted as
\* failed: its id is in failed_instances, it is not counted successful, and
\* its trajectory file is written with the type name of the exception as exit
\* status.
C2_ExceptionCountedFailed ==
    (pipeline = "batch" /\ EndedAfterLoop /\ last.loop_end = "exception"
       /\ last.why = "saved")
    => /\ last.instance_id \in Range(failed_instances)
       /\ ~last.success
       /\ Writes(last.instance_id) = 1
       /\ saved.written
       /\ saved.exit_status \in Unexpected

\* C3: success_count + len(failed_instances) is the number of instances
\* processed, after each instance; no instance id is counted both ways; the
\* summary written has successful + len(failed_instances) = total_instances =
\* the number of filtered instances.
C3_CountsAddUp ==
    /\ success_count + Len(failed_instances) = i
    /\ Len(outcomes) = i
    /\ success_count = Cardinality({k \in 1..i : outcomes[k]})
    /\ \A k \in 1..i :
          outcomes[k] = (annotated_instances[k]["instance_id"] \notin Range(failed_instances))
    /\ summary.written =>
          /\ summary.metadata.total_instances = Len(annotated_instances)
          /\ summary.metadata.successful + Len(summary.failed_instances)
                = summary.metadata.total_instances
          /\ summary.metadata.failed = Len(summary.failed_instances)
          /\ i = Len(annotated_instances)

C3_Witness ==
    /\ summary.written
    /\ summary.metadata.total_instances = 2
    /\ summary.metadata.successful = 1
    /\ summary.failed_instances = <<Id(2)>>

\* C4: every instance of the filtered list is attempted, in order, whatever
\* happened to the ones before it, and the summary is written: a run over a
\* non-empty list ends with all instances processed and the summary on disk.
C4_EveryInstanceAttempted ==
    (pipeline = "batch" /\ pc \in {"done", "crashed"} /\ annotated_instances # <<>>)
    => /\ i = Len(annotated_instances)
       /\ summary.written

\* The transition is a step of the loop of the running instance.
LoopStep == pc = "stepping" /\ step_event' # step_event /\ step_event'.kind # "none"
\* The transition appends exactly n messages to the conversation and changes
\* none that was there.
Appends(n) ==
    /\ Len(agent_messages') = Len(agent_messages) + n
    /\ SubSeq(agent_messages', 1, Len(agent_messages)) = agent_messages
    /\ \A k \in 1..Len(agent_messages) : heap'[agent_messages[k]] = heap[agent_messages[k]]

C15_TerminalEndsLoop ==
    [][/\ (LoopStep /\ step_event'.exc \in Terminating)
          => /\ Appends(step_event'.by_step + 1)
             /\ heap'[agent_messages'[Len(agent_messages')]]
                   = [role |-> "user", content |-> <<StrOf(step_event'.exc)>>]
             /\ exit_status' = step_event'.exc
             /\ result' = StrOf(step_event'.exc)
             /\ pc' = "saving"
       /\ (pc = "saving" /\ step_event.kind = "terminal")
          => /\ step_event' \in {step_event, NoEvent}
             /\ pc' # "stepping"
             /\ pc' # "saving"
             /\ saved'.written
                   => /\ saved'.messages = Conversation
                      /\ saved'.exit_status = step_event.exc
                      /\ saved'.result = StrOf(step_event.exc)]_vars

\* A submission after one ordinary step, saved.
C15_Witness ==
    /\ EndedAfterLoop
    /\ last.loop_end = "terminal"
    /\ saved.written
    /\ saved.exit_status = "Submitted"
    /\ saved.result = StrOf("Submitted")
    /\ Len(saved.messages) = 4 + 2 + 2
    /\ saved.messages[8] = [role |-> "user", content |-> <<StrOf("Submitted")>>]
    /\ saved.messages[7] = ModelReply

C15_WitnessLimits ==
    /\ EndedAfterLoop
    /\ saved.written
    /\ saved.exit_status = "LimitsExceeded"
    /\ saved.messages[Len(saved.messages)]
          = [role |-> "user", content |-> <<StrOf("LimitsExceeded")>>]

\* The five entries extra_info has on every path.
ExtraInfoKeys ==
    {"original_trajectory", "cwe_type", "injection_content", "injection_step",
     "injection_method"}
\* The annotation entry of the instance whose file was written last, and the
\* path of its original trajectory as the pipeline names it.
SavedEntry == IF pipeline = "batch" THEN annotated_instances[i] ELSE annotations[1]
SavedPath == IF pipeline = "batch" THEN SavedEntry["trajectory_path"] ELSE <<"--original-traj">>
\* The extra_info just written (the instance processed last is the one that
\* was saved): traceback if and only if the loop ended by an
\* exception caught at the instance level; the five other entries as given.
PersistedExtraInfo ==
    (saved.written /\ last.why = "saved")
    => /\ ("traceback" \in DOMAIN saved.extra_info) <=> (last.loop_end = "exception")
       /\ (DOMAIN saved.extra_info) \ {"traceback"} = ExtraInfoKeys
       /\ saved.extra_info["original_trajectory"] = SavedPath
       /\ saved.extra_info["cwe_type"] = cwe_type
       /\ saved.extra_info["injection_content"] = Payload
       /\ saved.extra_info["injection_step"] = SavedEntry["injection_step"]
       /\ saved.extra_info["injection_method"] = injection_method
       /\ (last.loop_end = "exception")
             => (saved.exit_status \in Unexpected /\ saved.result = StrOf(saved.exit_status))

\* C16: a step that raises any other exception: nothing is appended besides
\* what the step itself had appended; the exit status is the type name of the
\* exception and the result its text; extra_info gains the traceback entry and
\* keeps its other entries; the loop is left for the save. The extra_info
\* written has the traceback entry exactly when the loop ended this way, and
\* its other five entries are the same on both paths.
C16_UnexpectedCaught ==
    /\ []PersistedExtraInfo
    /\ [][(LoopStep /\ step_event'.exc \in Unexpected)
          => /\ Appends(step_event'.by_step)
             /\ exit_status' = step_event'.exc
             /\ result' = StrOf(step_event'.exc)
             /\ "traceback" \notin DOMAIN extra_info
             /\ DOMAIN extra_info' = (DOMAIN extra_info) \cup {"traceback"}
             /\ \A k \in DOMAIN extra_info : extra_info'[k] = extra_info[k]
             /\ pc' = "saving"]_vars

\* The environment failed after the model had replied: the reply is the last
\* message written, the traceback is in the file.
C16_Witness ==
    /\ EndedAfterLoop
    /\ last.loop_end = "exception"
    /\ saved.written
    /\ saved.exit_status = "OSError"
    /\ saved.result = StrOf("OSError")
    /\ "traceback" \in DOMAIN saved.extra_info
    /\ Len(saved.messages) = 3 + 1
    /\ saved.messages[4] = ModelReply

\* The other path: a terminal condition, no traceback in the file.
C16_WitnessNoTraceback ==
    /\ saved.written
    /\ last.loop_end = "terminal"
    /\ DOMAIN saved.extra_info = ExtraInfoKeys

\* The first n items of seq, all of them when there are fewer.
FirstN(seq, n) == SubSeq(seq, 1, IF n < Len(seq) THEN n ELSE Len(seq))
\* The message sequence the mutator of the pipeline returns for the trajectory
\* file of the running instance, message by message.
MutatedOf(file) ==
    LET r == Mutate(pipeline, injection_method, LoadedHeap(file), LoadedTraj(file),
                    injection_step, cwe_type)
    IN  [k \in 1..Len(r.value) |-> r.heap[r.value[k]]]
\* The trajectory files the running instance may have loaded.
FilesOfInstance == {file \in TrajectoryFiles : LoadedTraj(file) = original_traj}

\* C17: when the loop starts the conversation is the mutated sequence and
\* nothing else; in every later state of the loop, and when the conversation
\* is about to be saved, its first injection_step messages are that sequence.
C17_PrefixIsMutatedSequence ==
    (pc \in {"stepping", "saving"})
    => \E file \in FilesOfInstance :
          /\ step_event = NoEvent => Conversation = MutatedOf(file)
          /\ FirstN(Conversation, injection_step) = MutatedOf(file)

\* The configuration and validation errors of an instance.
ValidationErrors ==
    {"Unknown CWE type", "Trajectory must have 'messages' field",
     "User is not the last message",
     "No user message found in truncated trajectory",
     "No <instructions> tag found in first user message for instructions injection method",
     "trajectory file missing", "instance not in dataset"}

C18_WitnessGoesOn ==
    /\ summary.written
    /\ outcomes = <<FALSE, TRUE>>
    /\ summary.failed_instances = <<Id(1)>>
    /\ Writes(Id(1)) = 0
    /\ Writes(Id(2)) = 1
    /\ cwe_type = "cwe_532"

C18_WitnessUnknownClass ==
    /\ pipeline = "batch"
    /\ last.seen
    /\ last.why = "Unknown CWE type"
    /\ summary.written
    /\ summary.failed_instances = <<Id(1), Id(2)>>
    /\ traj_writes = <<>>

\* The positions of the annotation file whose entry is annotated: it has an
\* injection_step and that is not the sentinel.
AnnotatedPositions ==
    {k \in 1..Len(annotations) :
        /\ "injection_step" \in DOMAIN annotations[k]
        /\ annotations[k]["injection_step"] # -1}
\* The j-th of them in file order.
AnnotatedPosition(j) ==
    CHOOSE k \in AnnotatedPositions :
        Cardinality({x \in AnnotatedPositions : x <= k}) = j
\* How many entries the batch is to process: all annotated ones, or the
\* first `limit` of them when limit is a positive integer.
ExpectedCount ==
    IF limit # <<>> /\ limit[1] >= 1 /\ limit[1] < Cardinality(AnnotatedPositions)
    THEN limit[1]
    ELSE Cardinality(AnnotatedPositions)

\* C19: once main has the filtered list, it is the annotated entries of the
\* file in file order, cut to the first `limit` when limit is positive and
\* not cut when limit is absent, 0 or negative; the instance being processed
\* is the next entry of that list, and the summary reports its length.
C19_FilteredList ==
    (pipeline = "batch" /\ pc # "start")
    => /\ Len(annotated_instances) = ExpectedCount
       /\ \A j \in 1..ExpectedCount :
             annotated_instances[j] = annotations[AnnotatedPosition(j)]
       /\ i <= ExpectedCount
       /\ Len(outcomes) = i
       /\ pc \in {"stepping", "saving"}
             => instance_id = annotations[AnnotatedPosition(i + 1)]["instance_id"]
       /\ (pc = "loop" /\ i > 0)
             => last.instance_id = annotations[AnnotatedPosition(i)]["instance_id"]
       /\ summary.written
             => (i = ExpectedCount /\ summary.metadata.total_instances = ExpectedCount)

\* Two annotated entries and limit 1: the first one is processed and the
\* summary counts one instance.
C19_Witness ==
    /\ limit = <<1>>
    /\ Cardinality(AnnotatedPositions) = 2
    /\ annotated_instances = <<annotations[1]>>
    /\ summary.written
    /\ summary.metadata.total_instances = 1
    /\ summary.metadata.successful = 1

\* A negative limit, and an entry without injection_step in front of the
\* annotated one.
C19_WitnessNegative ==
    /\ limit = <<-1>>
    /\ Len(annotations) = 2
    /\ "injection_step" \notin DOMAIN annotations[1]
    /\ annotated_instances = <<annotations[2]>>
    /\ summary.written

C19_WitnessZero ==
    /\ limit = <<0>>
    /\ Len(annotated_instances) = 2
    /\ summary.written
    /\ summary.metadata.total_instances = 2

\* C20: a batch run that has come to its end, whatever the annotation file
\* held, has written the summary, and not before the last instance was
\* processed; the summary carries the class, the method, the three counts,
\* the failed ids in processing order and the payload text of the class.
C20_SummaryAlwaysWritten ==
    /\ summary.written => (pc = "done" /\ i = Len(annotated_instances))
    /\ (pipeline = "batch" /\ pc = "done")
       => /\ summary.written
          /\ summary.metadata.cwe_type = cwe_type
          /\ summary.metadata.injection_method = injection_method
          /\ summary.metadata.total_instances = Len(annotated_instances)
          /\ summary.metadata.successful = success_count
          /\ summary.metadata.failed = Len(failed_instances)
          /\ summary.failed_instances = failed_instances
          /\ cwe_type \in SupportedClasses
                => summary.injection_content = CWE_INJECTIONS[cwe_type]


\* ------------------------------------------------ repeated calls, both methods
\* Two results agree on validation: both returned, or both raised the same
\* error with the same text.
SameValidation(a, b) == a.raised = b.raised /\ a.exc = b.exc /\ a.text = b.text

C24_WitnessFails ==
    /\ ncalls = 2
    /\ ret.method = "append"
    /\ InvalidTarget(ret)

C26_WitnessSystem ==
    /\ ret.method = "instructions"
    /\ ~ret.raised
    /\ ncalls = 1
    /\ Len(ret.value) >= 2
    /\ Out(Len(ret.value)).role = "system"

\* The append method refuses the same prefix.
C26_WitnessAppend ==
    /\ ret.method = "append"
    /\ InvalidTarget(ret)
    /\ ncalls = 1
    /\ KeptCount = 2
    /\ Source(1).role = "user"
    /\ HasMarker(Source(1).content)
    /\ Source(2).role = "assistant"

\* What the other pipeline's mutator does with the arguments of the last call.
OtherPipeline == IF pipeline = "batch" THEN "simple" ELSE "batch"
OtherResult ==
    Mutate(OtherPipeline, ret.method, pre_heap, original_traj, injection_step, cwe_type)

\* C30: both pipelines support the same class identifiers and map each to
\* the same payload text, so for the same trajectory, step, class and method
\* the other pipeline's mutator yields the same result: the same messages
\* with the same contents, or the same error.
C30_OneRegistry ==
    (ret.method # None /\ ncalls = 1)
    => /\ DOMAIN CWE_INJECTIONS = DOMAIN SIMPLE_CWE_INJECTIONS
       /\ cwe_type \in SupportedClasses
             => CWE_INJECTIONS[cwe_type] = SIMPLE_CWE_INJECTIONS[cwe_type]
       /\ SameValidation(ret, OtherResult)
       /\ OtherResult.value = ret.value
       /\ OtherResult.heap = heap


\* -------------------------------------------------- the rule-based annotator
\* The trajectory the last call of annotate_instance searched, its messages,
\* and the message at 0-based index k.
Searched == anno.called /\ anno.searched
AnnoTraj == trajectory_dir[anno.argument["instance_id"]].traj
AnnoMessages == PyDictGet(AnnoTraj, "messages", <<>>)
AnnoMessage(k) == AnnoMessages[k + 1]
\* The pieces of content before position a in which a fence occurs.
FencesBefore(content, a) == {k \in 1..(a - 1) : HasFence(content[k])}
\* An in-place sed inside a bash code block: the block is opened by a bash
\* fence (an even number of fences stand before it), the sed -i comes before
\* the fence that closes the block.
SedInsideBashBlock(content) ==
    \E a, b \in 1..Len(content) :
        /\ a < b
        /\ content[a] = BashFence
        /\ Cardinality(FencesBefore(content, a)) % 2 = 0
        /\ content[b] = SedInPlace
        /\ \A k \in (a + 1)..(b - 1) : ~HasFence(content[k])
        /\ \E c \in (b + 1)..Len(content) : HasFence(content[c])
\* The 0-based indices of the user messages that hold the prompt marker.
TemplateIndices ==
    {k \in 0..(Len(AnnoMessages) - 1) :
        AnnoMessage(k).role = "user" /\ HasPromptMarker(AnnoMessage(k).content)}
AfterTemplate(k) == \A t \in TemplateIndices : \E u \in TemplateIndices : u <= t /\ u < k
\* The indices the detector is to choose from.
SedCandidates ==
    {k \in 0..(Len(AnnoMessages) - 1) :
        /\ AnnoMessage(k).role = "assistant"
        /\ SedInsideBashBlock(AnnoMessage(k).content)
        /\ AfterTemplate(k)}

\* C22: find_first_sed_injection_point returns the smallest index of an
\* assistant message that has an in-place sed inside a bash code block and
\* lies after the first user message with the prompt marker (anywhere when
\* there is no such user message); None when there is no such message; never
\* the index of a user or system message, nor an index at or before the
\* prompt-template message.
C22_FirstSedAfterTemplate ==
    Searched
    => /\ (SedCandidates = {}) <=> (anno.found = <<>>)
       /\ anno.found # <<>>
             => /\ anno.found[1] \in SedCandidates
                /\ \A k \in SedCandidates : anno.found[1] <= k
                /\ AnnoMessage(anno.found[1]).role \notin {"user", "system"}
                /\ AfterTemplate(anno.found[1])

\* The method and the step of an annotation record.
MethodOf(r) == PyDictGet(r, "annotation_method", "none")
StepOf(r) == PyDictGet(r, "injection_step", UNANNOTATED)
\* The records the annotator has produced: the list of the running pass and
\* the file written by the pass before.
ProducedRecords ==
    Range(annotated_instances)
        \cup (IF annotated_file.written THEN Range(annotated_file.instances) ELSE {})

\* C23: in the records of any sequence of passes, an instance whose step the
\* detector has filled carries the method rule_based and never human; human
\* goes only to instances whose step was set in the input of the first pass.
C23_HeuristicNeverHuman ==
    \A r \in ProducedRecords :
        /\ r["instance_id"] \in rule_filled => MethodOf(r) = "rule_based"
        /\ MethodOf(r) = "human" => r["instance_id"] \notin rule_filled

\* C27: every step the detector returns is a valid target of the append
\* method: it is at least 1, the message before it is a user message, and
\* truncate_and_inject succeeds with it for every supported class.
C27_DetectedStepIsValidTarget ==
    (Searched /\ anno.found # <<>>)
    => /\ anno.found[1] >= 1
       /\ AnnoMessage(anno.found[1] - 1).role = "user"
       /\ \A c \in SupportedClasses :
             ~truncate_and_inject(AnnoMessages, [messages |-> RefList(Len(AnnoMessages))],
                                  anno.found[1], c).raised

\* Every assistant message of the searched trajectory comes right after a
\* user message.
AssistantFollowsUser ==
    \A k \in 0..(Len(AnnoMessages) - 1) :
        AnnoMessage(k).role = "assistant" => (k >= 1 /\ AnnoMessage(k - 1).role = "user")

\* C27 (amended): on a trajectory in which every assistant message comes right
\* after a user message, the step the detector returns is at least 1, the
\* message before it is a user message, and truncate_and_inject succeeds
\* with it for every supported class.
C27_DetectedStepAfterUserIsValid ==
    (Searched /\ anno.found # <<>> /\ AssistantFollowsUser)
    => /\ anno.found[1] >= 1
       /\ AnnoMessage(anno.found[1] - 1).role = "user"
       /\ \A c \in SupportedClasses :
             LET r == truncate_and_inject(AnnoMessages,
                                          [messages |-> RefList(Len(AnnoMessages))],
                                          anno.found[1], c)
             IN  /\ ~r.raised
                 /\ Len(r.value) = anno.found[1]

\* The session of a real agent: the detector returns 2, the prompt template
\* is the message before it.
C27_Witness ==
    /\ Searched
    /\ AnnoTraj = SessionTrajectory
    /\ anno.found = <<2>>
    /\ ~truncate_and_inject(AnnoMessages, [messages |-> RefList(3)], 2, "cwe_532").raised

\* The detector returns a step that the append method refuses.
C27_WitnessRefused ==
    /\ Searched
    /\ anno.found = <<1>>
    /\ AnnoMessage(0).role = "system"
    /\ InvalidTarget(truncate_and_inject(AnnoMessages, [messages |-> RefList(Len(AnnoMessages))],
                                         1, "cwe_532"))

\* C29: annotate_instance leaves the record passed in as it was and returns
\* a record with one of the five methods; the returned step is the detected
\* index for rule_based, the step of the input for human, and the sentinel
\* for no_sed_found, missing_file and error; so a record of the output passes
\* the filter of the batch run exactly when its method is human or rule_based.
C29_AnnotateFrame ==
    /\ anno.called
       => /\ anno.instance = anno.argument
          /\ MethodOf(anno.returned) \in AnnotationMethods
          /\ StepOf(anno.returned) # StepOf(anno.argument)
                => MethodOf(anno.returned) = "rule_based"
          /\ MethodOf(anno.returned) = "rule_based"
                => anno.found = <<StepOf(anno.returned)>>
          /\ MethodOf(anno.returned) = "human"
                => StepOf(anno.returned) = StepOf(anno.argument)
          /\ MethodOf(anno.returned) \in {"no_sed_found", "missing_file", "error"}
                => StepOf(anno.returned) = UNANNOTATED
    /\ annotated_file.written
       => get_annotated_instances(annotated_file.instances, <<>>)
             = SelectSeq(annotated_file.instances,
                         LAMBDA r : MethodOf(r) \in {"human", "rule_based"})

\* The detector fills the step of an unannotated record with index 2.
C29_Witness ==
    /\ anno.called
    /\ StepOf(anno.argument) = UNANNOTATED
    /\ "annotation_method" \notin DOMAIN anno.argument
    /\ MethodOf(anno.returned) = "rule_based"
    /\ StepOf(anno.returned) = 2
    /\ StepOf(anno.instance) = UNANNOTATED

\* The other four methods, and an output file with records kept and dropped.
C29_WitnessHuman ==
    /\ anno.called
    /\ MethodOf(anno.returned) = "human"
    /\ StepOf(anno.returned) = 3
C29_WitnessNoSed ==
    /\ anno.called
    /\ MethodOf(anno.returned) = "no_sed_found"
    /\ Len(AnnoMessages) >= 2
C29_WitnessMissingFile ==
    /\ anno.called
    /\ MethodOf(anno.returned) = "missing_file"
C29_WitnessError ==
    /\ anno.called
    /\ MethodOf(anno.returned) = "error"
C29_WitnessFilter ==
    /\ annotated_file.written
    /\ Len(annotated_file.instances) = 2
    /\ Len(get_annotated_instances(annotated_file.instances, <<>>)) = 1


\* ------------------------------------------------------ the persisted status
\* C28: whenever a trajectory is persisted its exit status and its result are
\* set, neither is the None of before the loop: they are the class name and
\* the text of the condition or exception that ended the loop.
C28_PersistedStatusSet ==
    saved.written
    => /\ saved.exit_status # None
       /\ saved.result # None
       /\ saved.exit_status \in Terminating \cup Unexpected
       /\ saved.result = StrOf(saved.exit_status)

\* Persisted after a terminal condition.
C28_Witness ==
    /\ saved.written
    /\ last.seen
    /\ last.loop_end = "terminal"
    /\ saved.exit_status = "Submitted"
    /\ saved.result # None

\* Persisted after an unexpected exception.
C28_WitnessException ==
    /\ saved.written
    /\ last.seen
    /\ last.loop_end = "exception"
    /\ saved.exit_status = "OSError"
    /\ saved.result # None


\* ------------------------------------------------------ leaving the loop
\* The agent ends every loop: a step that raises a terminal condition or an
\* unexpected exception is eventually taken.
AgentEventuallyEnds == WF_vars(StepTerminating \/ StepUnexpected)
\* The loop of instance id has ended with an exit status and the save was
\* attempted once (in the single run it starts with the output directory).
SaveAttempted(id) ==
    /\ last.seen
    /\ last.instance_id = id
    /\ last.entered
    /\ last.exit_status # None
    /\ last.why \in {"saved", "save_traj raises", "mkdir raises"}
    /\ last.why # "mkdir raises" => last.save_calls = 1
    /\ last.why = "saved" => Writes(id) = 1
\* The loop is left only by a step that raises a terminal condition or an
\* unexpected exception; a step that returns or raises a recoverable
\* condition leaves the controller in the loop.
LeavesLoopOnlyByCondition ==
    [][/\ (pc = "stepping" /\ pc' # "stepping")
             => /\ step_event'.kind \in {"terminal", "unexpected"}
                /\ exit_status' # None
                /\ pc' = "saving"
       /\ (LoopStep /\ step_event'.kind \in {"returned", "recoverable"})
             => pc' = "stepping" /\ exit_status' = None]_vars
\* In the loop a further step that returns or raises a recoverable condition
\* is possible after any number of steps.
NoStepBound ==
    [](pc = "stepping" => ENABLED <<StepReturns \/ StepNonTerminating \/ StepBeyondBound>>_vars)

\* C25: the loop is left only when a step raises a terminal condition or an
\* unexpected exception, the controller imposes no bound on the steps, and
\* if the agent eventually raises one, every instance whose loop was entered
\* is eventually persisted.
C25_EventuallyPersisted ==
    /\ LeavesLoopOnlyByCondition
    /\ NoStepBound
    /\ AgentEventuallyEnds
          => \A p \in 1..MaxInstances :
                (pc = "stepping" /\ instance_id = Id(p)) ~> (Writes(Id(p)) >= 1)

\* C25 (amended): the same, with the end reached being that the loop has
\* ended with an exit status and the save has been attempted once; the file
\* is there when the save did not raise.
C25_EventuallySaveAttempted ==
    /\ LeavesLoopOnlyByCondition
    /\ NoStepBound
    /\ AgentEventuallyEnds
          => \A p \in 1..MaxInstances :
                (pc = "stepping" /\ instance_id = Id(p)) ~> SaveAttempted(Id(p))

\* A loop that ran beyond the counted steps, ended by a terminal condition
\* and saved.
C25_Witness ==
    /\ last.seen
    /\ last.entered
    /\ last.why = "saved"
    /\ last.loop_end = "terminal"
    /\ nsteps = 0
    /\ Writes(last.instance_id) = 1
    /\ pipeline = "batch"

\* The loop running past the counted steps.
C25_WitnessBeyondBound ==
    /\ pc = "stepping"
    /\ nsteps = MaxSteps
    /\ step_event.kind = "recoverable"
    /\ step_event.by_step = 1
    /\ Len(agent_messages) > injection_step + MaxSteps


\* ------------------------------------------------------------ environments
\* The environments that have not been disposed of.
AliveEnvironments == {k \in 1..Len(environments) : environments[k].state # "disposed"}

\* C21: at most one environment is constructed per instance; an environment
\* is alive only while its instance is running, so it has been disposed of on
\* every path by the time the instance has completed and before the next
\* environment is constructed; never are two environments alive.
C21_EnvironmentsDisposed ==
    /\ \A k, j \in 1..Len(environments) :
          k # j => environments[k].instance_id # environments[j].instance_id
    /\ Cardinality(AliveEnvironments) <= 1
    /\ \A k \in AliveEnvironments :
          /\ environments[k].state = "in use"
          /\ environments[k].instance_id = instance_id
          /\ pc \in {"stepping", "saving"}

=============================================================================
